---- MODULE Spec2Model ----
(***************************************************************************)
(* Response cycle of the Discord assistant (src/index.ts): the             *)
(* MessageCreate handler with its intake filter, typing interval, model    *)
(* selection, seed history, bounded attempt loop with the get_messages     *)
(* tool, history expansion and chunked reply.                              *)
(*                                                                         *)
(* Every action is one run of the handler between two suspension points    *)
(* (awaits of a gateway or completion-service call).  The gateway and the  *)
(* completion service are the environment: what they return is an input    *)
(* of the action that resumes the handler.                                 *)
(***************************************************************************)
EXTENDS Integers, Sequences, FiniteSets, TLC

VARIABLES
    pc,              \* per cycle: where the handler is suspended
    trigger,         \* per cycle: the message of the MessageCreate event
    selectParts,     \* per cycle: the user turn's content of the selection call
    typing,          \* per cycle: typingInterval: times set, cleared, ticks fired
    selectCalls,     \* per cycle: openai.responses.parse calls issued
    selected,        \* per cycle: selectResponse.output_parsed?.model
    error,           \* per cycle: selectError / error
    caught,          \* per cycle: the err of the catch block
    unhandledRejection, \* per cycle: the handler's promise has rejected
    history,         \* per cycle: the local `history`
    attempt,         \* per cycle: the loop variable `attempt`
    pending,         \* per cycle: channel.messages.fetch calls in flight
    answer,          \* per cycle: response.output_text of the terminal response
    idx,             \* per cycle: the chunk loop variable `i`
    sent,            \* per cycle: messages handed to the gateway, in order
    completionCalls, \* per cycle: openai.responses.create calls issued
    fetchLog,        \* per cycle: channel.messages.fetch calls issued
    outcome          \* per cycle: the exit path taken

vars == <<pc, trigger, selectParts, typing, selectCalls, selected, error, caught,
          unhandledRejection, history, attempt,
          pending, answer, idx, sent, completionCalls, fetchLog, outcome>>

----------------------------------------------------------------------------
(* Bounds of the model *)

MaxChannel == 7        \* messages in the channel before the newest trigger
IdsPerMs == 2          \* message ids that share one creation millisecond
MaxTicks == 1          \* typing ticks observed per cycle
MaxTextLen == 4500     \* longest answer text the service returns
MaxAttachments == 12   \* most attachments a message carries
MaxLimit == 21         \* largest limit a get_messages item asks for

(* Program constants *)

SeedLimit == 5
LastAttempt == 2
ChunkLimit == 2000
AttachmentCap == 10
LimitMinimum == 1
LimitMaximum == 20

Cycles == {1, 2}
MainCycles == {1}

Min(a, b) == IF a < b THEN a ELSE b

----------------------------------------------------------------------------
(* Texts: sequences of one-character strings *)

Prefix == <<"<", "@", ">">>

Glyph(k) == IF k % 3 = 0 THEN "a" ELSE IF k % 3 = 1 THEN "b" ELSE "c"

Text(n) == [k \in 1..n |-> Glyph(k)]

\* String.prototype.startsWith
StartsWith(s, p) == Len(s) >= Len(p) /\ SubSeq(s, 1, Len(p)) = p

\* String.prototype.slice(from, to) with 0 <= from, 0-based, end exclusive
Slice(s, from, to) == SubSeq(s, from + 1, Min(to, Len(s)))

modelList == <<"gpt-5-nano", "gpt-5-mini", "gpt-5.2", "gpt-5.1-codex">>
NoModel == "undefined"

GenericApology == <<"o", "o", "p", "s">>
SelectErrorTexts == {<<"s", "1">>, <<"s", "2">>}
CompletionErrorTexts == {<<"c", "1">>, <<"c", "2">>}
FetchErrorText == <<"f", "1">>
AttachmentErrorText == <<"a", "1">>
GatewayErrorText == <<"g", "1">>

NoError == [failed |-> FALSE, isError |-> FALSE, message |-> <<>>]
ErrorOf(text) == [failed |-> TRUE, isError |-> TRUE, message |-> text]

----------------------------------------------------------------------------
(* The channel held by the gateway *)

AuthorOf(id) == IF id % 3 = 0 THEN "self" ELSE IF id % 5 = 0 THEN "otherbot" ELSE "user"

\* the attachments of the channel's messages: the second message carries
\* one text file, the others none
ChannelAttachments(id) ==
    IF id = 2
    THEN <<[name |-> 1, url |-> 1, contentType |-> <<"text/", "plain">>]>>
    ELSE <<>>

ChannelMsg(id) ==
    [id |-> id, author |-> AuthorOf(id), attachments |-> ChannelAttachments(id)]

\* the triggering message as an entry of the history
TriggerMsg(t) ==
    [id |-> t.id, author |-> AuthorOf(t.id), attachments |-> t.attachments]

NoMsg == [id |-> 0, ref |-> 0, content |-> <<>>, attachments |-> <<>>]

\* Message.createdTimestamp: the snowflake id without its low bits
createdTimestamp(m) == m.id \div IdsPerMs

\* channel.messages.fetch({limit, before}): newest first
Fetch(limit, before) ==
    [k \in 1..Min(limit, before - 1) |-> ChannelMsg(before - k)]

\* Array.prototype.sort((a, b) => a.createdTimestamp - b.createdTimestamp),
\* a stable sort
RECURSIVE SortByTs(_)
InsertByTs(s, m) ==
    LET k == Cardinality({j \in 1..Len(s) :
                            createdTimestamp(s[j]) <= createdTimestamp(m)})
    IN SubSeq(s, 1, k) \o <<m>> \o SubSeq(s, k + 1, Len(s))
SortByTs(s) ==
    IF Len(s) = 0 THEN <<>>
    ELSE InsertByTs(SortByTs(SubSeq(s, 1, Len(s) - 1)), s[Len(s)])

SeedNoSort(m, batch) == <<m>> \o batch
SeedHistory(m, batch) == SortByTs(<<m>> \o batch)

MergeNoSort(batch, hist) == batch \o hist
Merge(batch, hist) == SortByTs(batch \o hist)

\* before: of the expansion fetch
FetchAnchor(hist) == hist[Len(hist)].id

----------------------------------------------------------------------------
(* Pure parts of the handler *)

\* author.bot is false, and the message mentions the bot first or replies to it
AcceptsAnyAuthor(id, ref, content) ==
    \/ StartsWith(content, Prefix)
    \/ ref # 0 /\ AuthorOf(ref) = "self"
Accepts(id, ref, content) ==
    /\ AuthorOf(id) = "user"
    /\ \/ StartsWith(content, Prefix)
       \/ ref # 0 /\ AuthorOf(ref) = "self"

\* the filter has to await message.fetchReference(): the author is no bot,
\* the content does not start with the prefix and the message is a reply
NeedsReference(id, ref, content) ==
    /\ AuthorOf(id) = "user"
    /\ ~StartsWith(content, Prefix)
    /\ ref # 0

\* message.content.slice(startsWith(prefix) ? prefix.length : 0)
PromptOf(content) ==
    Slice(content, IF StartsWith(content, Prefix) THEN Len(Prefix) ELSE 0,
          Len(content))

\* the white space and line terminators that String.prototype.trimStart
\* removes.  A character of a text is a one-character string or, where a
\* string cannot hold it here, the name of its code point
WhiteSpace ==
    {" ", "\t", "\n", "\r", "\f"}
    \cup {"U+000B", "U+00A0", "U+1680", "U+2000", "U+2001", "U+2002", "U+2003",
          "U+2004", "U+2005", "U+2006", "U+2007", "U+2008", "U+2009", "U+200A",
          "U+2028", "U+2029", "U+202F", "U+205F", "U+3000", "U+FEFF"}
\* String.prototype.trimStart, as buildTextFromDiscordMessage applies it
RECURSIVE TrimStart(_)
TrimStart(s) ==
    IF Len(s) > 0 /\ s[1] \in WhiteSpace
    THEN TrimStart(SubSeq(s, 2, Len(s)))
    ELSE s

\* the third line of buildTextFromDiscordMessage: the content without the
\* prefix and the whitespace after it, or the content as it is
ContentLine(content) ==
    IF StartsWith(content, Prefix)
    THEN TrimStart(Slice(content, Len(Prefix), Len(content)))
    ELSE content

\* buildTextFromDiscordMessage: the lines from:, time: and the content
buildTextFromDiscordMessage(m) ==
    [from |-> AuthorOf(m.id), time |-> createdTimestamp(m),
     content |-> ContentLine(m.content)]

\* [...m.attachments.values()].slice(0, 10)
AllAttachments(atts) == atts
FirstAttachments(atts) == Slice(atts, 0, AttachmentCap)

\* the part built for one attachment, by f.contentType?.startsWith(...)
PartOf(m, f) ==
    IF StartsWith(f.contentType, <<"image/">>)
    THEN [type |-> "input_image", url |-> f.url]
    ELSE IF StartsWith(f.contentType, <<"text/">>)
    THEN [type |-> "input_text",
          text |-> [from |-> AuthorOf(m.id), time |-> createdTimestamp(m),
                    filename |-> f.name, content |-> <<"body", f.url>>]]
    ELSE [type |-> "input_file", url |-> f.url]

\* buildPartsFromDiscordMessage: the text part, then one part per attachment
\* kept, in the order of Promise.all's result
buildPartsFromDiscordMessage(m) ==
    LET kept == FirstAttachments(m.attachments)
    IN <<[type |-> "input_text", text |-> buildTextFromDiscordMessage(m)]>>
       \o [k \in 1..Len(kept) |-> PartOf(m, kept[k])]

\* buildPartsFromDiscordMessage(m) awaits a fetch(f.url): one of the
\* attachments it keeps is a text file
AwaitsDownload(m) ==
    \E k \in 1..Len(FirstAttachments(m.attachments)) :
        StartsWith(m.attachments[k].contentType, <<"text/">>)

\* building the input awaits a fetch(f.url): buildPartsFromDiscordMessage is
\* called for the entries the bot did not write
InputAwaitsDownload(hist) ==
    \E k \in 1..Len(hist) : hist[k].author # "self" /\ AwaitsDownload(hist[k])

\* before: of the seed fetch
SeedAnchor(t) == IF t.ref # 0 THEN t.ref ELSE t.id

\* the loop condition attempt <= 2
LoopContinues(a) == a <= LastAttempt

\* attempt < 2 ? {tools: [get_messages]} : {}
ToolsOfferedAlways(a) == a <= LastAttempt
ToolsOffered(a) == a < LastAttempt

\* selectResponse.output_parsed?.model ?? modelList[0]
ModelArg(m) == IF m = NoModel THEN modelList[1] ELSE m

\* one input turn per history entry
BuildInputBotsAssistant(hist) ==
    [k \in 1..Len(hist) |->
        [role |-> IF hist[k].author # "user" THEN "assistant" ELSE "user",
         id |-> hist[k].id]]
BuildInput(hist) ==
    [k \in 1..Len(hist) |->
        [role |-> IF hist[k].author = "self" THEN "assistant" ELSE "user",
         id |-> hist[k].id]]

\* err instanceof Error ? err.message : "An unexpected error occurred."
CatchText(e) == IF e.isError THEN e.message ELSE GenericApology

\* response.output_text.slice(i, i + 2000)
ChunkAtShort(text, i) == Slice(text, i, i + ChunkLimit - 1)
ChunkAt(text, i) == Slice(text, i, i + ChunkLimit)

\* if (i === 0) message.reply(...) else message.channel.send(...)
ChunkViaReply(i) == "reply"
ChunkVia(i) == IF i = 0 THEN "reply" ELSE "send"

\* the chunk loop condition i < response.output_text.length
ChunkLoopContinues(text, i) == i < Len(text)

----------------------------------------------------------------------------
(* Steps shared by the handler's actions *)

Upd(f, c, v) == [f EXCEPT ![c] = v]

Active(c) == typing[c].set > 0 /\ typing[c].cleared = 0

\* finally { clearInterval(typingInterval) } and the handler returns
FinallyShared(c) ==
    /\ pc' = Upd(pc, c, "done")
    /\ typing' = [d \in Cycles |-> [typing[d] EXCEPT !.cleared = @ + 1]]
FinallySkipped(c) ==
    /\ pc' = Upd(pc, c, "done")
    /\ UNCHANGED typing
Finally(c) ==
    /\ pc' = Upd(pc, c, "done")
    /\ typing' = Upd(typing, c, [typing[c] EXCEPT !.cleared = @ + 1])

\* message.reply(text) is issued and awaited
Reply(c, text) ==
    /\ sent' = Upd(sent, c, Append(sent[c], [via |-> "reply", text |-> text]))
    /\ pc' = Upd(pc, c, "replying")

\* if (selectError || !selectResponse) return await message.reply(selectError.message)
OnSelectErrorGeneric(c, e) ==
    /\ error' = Upd(error, c, e)
    /\ outcome' = Upd(outcome, c, "selectError")
    /\ Reply(c, GenericApology)
    /\ UNCHANGED <<caught, unhandledRejection>>
OnSelectError(c, e) ==
    /\ error' = Upd(error, c, e)
    /\ outcome' = Upd(outcome, c, "selectError")
    /\ Reply(c, e.message)
    /\ UNCHANGED <<caught, unhandledRejection>>

\* if (error || !response) return await message.reply(error.message)
OnCompletionErrorGeneric(c, e) ==
    /\ error' = Upd(error, c, e)
    /\ outcome' = Upd(outcome, c, "completionError")
    /\ Reply(c, GenericApology)
    /\ UNCHANGED <<caught, unhandledRejection>>
OnCompletionError(c, e) ==
    /\ error' = Upd(error, c, e)
    /\ outcome' = Upd(outcome, c, "completionError")
    /\ Reply(c, e.message)
    /\ UNCHANGED <<caught, unhandledRejection>>

\* catch (err) { await message.reply(err instanceof Error ? err.message : ...) }
\* the exit path stays the one taken before the exception, if there was one
Catch(c, e) ==
    /\ caught' = Upd(caught, c, e)
    /\ outcome' = Upd(outcome, c,
                      IF outcome[c] = "none" THEN "exception" ELSE outcome[c])
    /\ sent' = Upd(sent, c,
                   Append(sent[c], [via |-> "reply", text |-> CatchText(e)]))
    /\ pc' = Upd(pc, c, "catching")
    /\ UNCHANGED <<error, unhandledRejection>>

\* the arguments of openai.responses.create on attempt a
CompletionCall(c, hist, a) ==
    [attempt |-> a, tools |-> ToolsOffered(a), model |-> ModelArg(selected[c]),
     input |-> BuildInput(hist)]

\* openai.responses.create is called with the input built from hist
IssueCompletion(c, hist, a) ==
    /\ completionCalls' =
          Upd(completionCalls, c,
              Append(completionCalls[c], CompletionCall(c, hist, a)))
    /\ pc' = Upd(pc, c, "completing")

\* for (attempt = a; attempt <= 2; ...) { build the input; issue the call }:
\* the handler is suspended while the input is built when that awaits a
\* download; when the loop condition fails, the fall-through to finally
EnterLoop(c, hist, a) ==
    /\ attempt' = Upd(attempt, c, a)
    /\ IF ~LoopContinues(a)
       THEN /\ Finally(c)
            /\ outcome' = Upd(outcome, c, "exhausted")
            /\ UNCHANGED completionCalls
       ELSE IF InputAwaitsDownload(hist)
       THEN /\ pc' = Upd(pc, c, "inputBuilding")
            /\ UNCHANGED <<typing, outcome, completionCalls>>
       ELSE /\ IssueCompletion(c, hist, a)
            /\ UNCHANGED <<typing, outcome>>

\* lines 98-131: setInterval, the prompt check, the parts of the selection
\* call's user turn and, unless a download is awaited for them, the call
Begin(c, m) ==
    IF Len(PromptOf(m.content)) = 0
    THEN /\ pc' = Upd(pc, c, "done")
         /\ typing' = Upd(typing, c, [set |-> 1, cleared |-> 1, ticks |-> 0])
         /\ outcome' = Upd(outcome, c, "empty")
         /\ UNCHANGED <<selectCalls, selectParts>>
    ELSE IF AwaitsDownload(m)
    THEN /\ pc' = Upd(pc, c, "selectBuilding")
         /\ typing' = Upd(typing, c, [set |-> 1, cleared |-> 0, ticks |-> 0])
         /\ UNCHANGED <<selectCalls, selectParts, outcome>>
    ELSE /\ pc' = Upd(pc, c, "selecting")
         /\ typing' = Upd(typing, c, [set |-> 1, cleared |-> 0, ticks |-> 0])
         /\ selectParts' = Upd(selectParts, c, buildPartsFromDiscordMessage(m))
         /\ selectCalls' = Upd(selectCalls, c, selectCalls[c] + 1)
         /\ UNCHANGED outcome

\* the filter fails: the handler returns without having done anything
Reject(c) ==
    /\ pc' = Upd(pc, c, "done")
    /\ outcome' = Upd(outcome, c, "rejected")
    /\ UNCHANGED <<typing, selectCalls, selectParts>>

\* the history a resolved expansion fetch is merged into: `...history` is
\* evaluated after the await, so it holds the batches merged so far
ExpansionBaseAtIssue(c) ==
    LET input == completionCalls[c][Len(completionCalls[c])].input
    IN [k \in 1..Len(input) |-> ChannelMsg(input[k].id)]
ExpansionBase(c) == history[c]

----------------------------------------------------------------------------
(* The handler, one action per resumption *)

\* lines 88-131: the event arrives; the intake filter, which awaits
\* fetchReference for a reply without the prefix, then setInterval, the
\* prompt check and the selection call
MessageCreate(c, id, ref, content, atts) ==
    /\ pc[c] = "idle"
    /\ \A d \in Cycles \ {c} : trigger[d].id # id
    /\ trigger' = Upd(trigger, c, [id |-> id, ref |-> ref, content |-> content,
                                   attachments |-> atts])
    /\ IF NeedsReference(id, ref, content)
       THEN /\ pc' = Upd(pc, c, "referencing")
            /\ UNCHANGED <<typing, selectCalls, selectParts, outcome>>
       ELSE IF ~Accepts(id, ref, content)
       THEN Reject(c)
       ELSE Begin(c, [id |-> id, ref |-> ref, content |-> content,
                      attachments |-> atts])
    /\ UNCHANGED <<selected, error, caught, unhandledRejection, history, attempt,
                   pending, answer, idx,
                   sent, completionCalls, fetchLog>>

\* lines 93-97: fetchReference settles; the filter is decided by the author
\* of the referenced message, and a rejection rejects the handler before
\* the try block: no interval, no reply
FetchReferenceReturns(c, ok) ==
    /\ pc[c] = "referencing"
    /\ IF ~ok
       THEN /\ pc' = Upd(pc, c, "done")
            /\ outcome' = Upd(outcome, c, "unhandled")
            /\ unhandledRejection' = Upd(unhandledRejection, c, TRUE)
            /\ UNCHANGED <<typing, selectCalls, selectParts>>
       ELSE /\ IF ~Accepts(trigger[c].id, trigger[c].ref, trigger[c].content)
               THEN Reject(c)
               ELSE Begin(c, trigger[c])
            /\ UNCHANGED unhandledRejection
    /\ UNCHANGED <<trigger, selected, error, caught, history, attempt, pending, answer,
                   idx, sent, completionCalls, fetchLog>>

\* lines 70, 124 and 154-162: the downloads of the text attachments settle
\* (Promise.all): the selection call, or the completion call of the attempt,
\* is issued; a rejection is the selection's error inside guard, and an
\* exception of the handler at the loop head
AttachmentFetchReturns(c, ok) ==
    /\ pc[c] \in {"selectBuilding", "inputBuilding"}
    /\ IF pc[c] = "selectBuilding"
       THEN IF ok
            THEN /\ pc' = Upd(pc, c, "selecting")
                 /\ selectParts' =
                       Upd(selectParts, c, buildPartsFromDiscordMessage(trigger[c]))
                 /\ selectCalls' = Upd(selectCalls, c, selectCalls[c] + 1)
                 /\ UNCHANGED <<error, caught, unhandledRejection, sent, outcome,
                                completionCalls>>
            ELSE /\ OnSelectError(c, ErrorOf(AttachmentErrorText))
                 /\ UNCHANGED <<selectParts, selectCalls, completionCalls>>
       ELSE IF ok
            THEN /\ IssueCompletion(c, history[c], attempt[c])
                 /\ UNCHANGED <<selectParts, selectCalls, error, caught,
                                unhandledRejection, sent, outcome>>
            ELSE /\ Catch(c, ErrorOf(AttachmentErrorText))
                 /\ UNCHANGED <<selectParts, selectCalls, completionCalls>>
    /\ UNCHANGED <<trigger, typing, selected, history, attempt, pending, answer,
                   idx, fetchLog>>

\* lines 132-148: the selection call settles; on success the seed fetch is issued
SelectReturns(c, r) ==
    /\ pc[c] = "selecting"
    /\ IF r.err.failed
       THEN /\ OnSelectError(c, r.err)
            /\ UNCHANGED <<selected, fetchLog>>
       ELSE /\ selected' = Upd(selected, c, r.model)
            /\ fetchLog' = Upd(fetchLog, c,
                   Append(fetchLog[c],
                          [kind |-> "seed", attempt |-> 0, item |-> 1, of |-> 1,
                           limit |-> SeedLimit,
                           before |-> SeedAnchor(trigger[c]), oldest |-> 0,
                           newest |-> 0]))
            /\ pc' = Upd(pc, c, "seeding")
            /\ UNCHANGED <<error, caught, unhandledRejection, outcome, sent>>
    /\ UNCHANGED <<trigger, selectParts, typing, selectCalls, history, attempt, pending,
                   answer, idx, completionCalls>>

\* lines 139-210: the seed fetch settles; history is seeded and attempt 0 starts
SeedFetchReturns(c, ok) ==
    /\ pc[c] = "seeding"
    /\ IF ok
       THEN LET hist == SeedHistory(TriggerMsg(trigger[c]),
                                    Fetch(SeedLimit, SeedAnchor(trigger[c])))
            IN /\ history' = Upd(history, c, hist)
               /\ EnterLoop(c, hist, 0)
               /\ UNCHANGED <<error, caught, unhandledRejection, sent>>
       ELSE /\ Catch(c, ErrorOf(FetchErrorText))
            /\ UNCHANGED <<history, attempt, completionCalls, typing>>
    /\ UNCHANGED <<trigger, selectParts, selectCalls, selected, pending, answer, idx,
                   fetchLog>>

\* lines 212-261: the completion call settles: error reply, first answer chunk,
\* or one fetch issued per get_messages item
CompletionReturns(c, r) ==
    /\ pc[c] = "completing"
    /\ IF r.err.failed
       THEN /\ OnCompletionError(c, r.err)
            /\ UNCHANGED <<answer, idx, pending, fetchLog, typing>>
       ELSE IF Len(r.calls) = 0
       THEN /\ answer' = Upd(answer, c, r.text)
            /\ idx' = Upd(idx, c, 0)
            /\ outcome' = Upd(outcome, c, "answered")
            /\ IF ChunkLoopContinues(r.text, 0)
               THEN /\ sent' = Upd(sent, c,
                          Append(sent[c],
                                 [via |-> ChunkVia(0), text |-> ChunkAt(r.text, 0)]))
                    /\ pc' = Upd(pc, c, "answering")
                    /\ UNCHANGED typing
               ELSE /\ Finally(c)
                    /\ UNCHANGED sent
            /\ UNCHANGED <<error, caught, unhandledRejection, pending, fetchLog>>
       ELSE LET issued == [j \in 1..Len(r.calls) |->
                             [kind |-> "tool", attempt |-> attempt[c],
                              item |-> j, of |-> Len(r.calls),
                              limit |-> r.calls[j],
                              before |-> FetchAnchor(history[c]),
                              oldest |-> history[c][1].id,
                              newest |-> history[c][Len(history[c])].id]]
            IN /\ fetchLog' = Upd(fetchLog, c, fetchLog[c] \o issued)
               /\ pending' = Upd(pending, c,
                      {[item |-> j, limit |-> r.calls[j],
                        before |-> FetchAnchor(history[c])] : j \in 1..Len(r.calls)})
               /\ pc' = Upd(pc, c, "expanding")
               /\ UNCHANGED <<error, caught, unhandledRejection, outcome, sent,
                              answer, idx, typing>>
    /\ UNCHANGED <<trigger, selectParts, selectCalls, selected, history, attempt,
                   completionCalls>>

\* lines 250-262: one expansion fetch settles and its batch is merged; after
\* the last one the loop goes on to the next attempt.  The first rejection
\* rejects Promise.all and the catch replies; the fetches still in flight
\* settle later, and their callbacks still merge into `history`
FetchReturns(c, p, ok) ==
    /\ p \in pending[c]
    /\ pending' = Upd(pending, c, pending[c] \ {p})
    /\ IF pc[c] = "expanding"
       THEN IF ok
            THEN LET hist == Merge(Fetch(p.limit, p.before), ExpansionBase(c))
                 IN /\ history' = Upd(history, c, hist)
                    /\ IF pending[c] \ {p} = {}
                       THEN EnterLoop(c, hist, attempt[c] + 1)
                       ELSE UNCHANGED <<pc, attempt, completionCalls, typing,
                                        outcome>>
                    /\ UNCHANGED <<error, caught, unhandledRejection, sent>>
            ELSE /\ Catch(c, ErrorOf(FetchErrorText))
                 /\ UNCHANGED <<history, attempt, completionCalls, typing>>
       ELSE /\ history' =
                  IF ok
                  THEN Upd(history, c,
                           Merge(Fetch(p.limit, p.before), ExpansionBase(c)))
                  ELSE history
            /\ UNCHANGED <<pc, attempt, completionCalls, typing, outcome,
                           error, caught, unhandledRejection, sent>>
    /\ UNCHANGED <<trigger, selectParts, selectCalls, selected, answer, idx,
                   fetchLog>>

\* lines 225-242, 263-267: the reply or send of a chunk settles: when it has
\* been delivered the next chunk is sent, or the handler returns through
\* finally; when the gateway rejects it the loop is left and the catch
\* replies
ChunkDelivered(c, ok) ==
    /\ pc[c] = "answering"
    /\ IF ok
       THEN LET i == idx[c] + ChunkLimit
            IN /\ idx' = Upd(idx, c, i)
               /\ IF ChunkLoopContinues(answer[c], i)
                  THEN /\ sent' = Upd(sent, c,
                             Append(sent[c],
                                    [via |-> ChunkVia(i),
                                     text |-> ChunkAt(answer[c], i)]))
                       /\ UNCHANGED <<pc, typing>>
                  ELSE /\ Finally(c)
                       /\ UNCHANGED sent
               /\ UNCHANGED <<error, caught, unhandledRejection, outcome>>
       ELSE /\ Catch(c, ErrorOf(GatewayErrorText))
            /\ UNCHANGED <<idx, typing>>
    /\ UNCHANGED <<trigger, selectParts, selectCalls, selected, history, attempt,
                   pending, answer, completionCalls, fetchLog>>

\* lines 134, 214, 263-271: the reply of an error settles.  Delivered:
\* finally runs.  Rejected inside the try block: the catch replies.  Rejected
\* inside the catch: finally runs and the handler's promise rejects
ReplyDelivered(c, ok) ==
    /\ pc[c] \in {"replying", "catching"}
    /\ IF ok \/ pc[c] = "catching"
       THEN /\ Finally(c)
            /\ unhandledRejection' = Upd(unhandledRejection, c, ~ok)
            /\ UNCHANGED <<error, caught, outcome, sent>>
       ELSE /\ Catch(c, ErrorOf(GatewayErrorText))
            /\ UNCHANGED typing
    /\ UNCHANGED <<trigger, selectParts, selectCalls, selected, history, attempt,
                   pending, answer, idx, completionCalls, fetchLog>>

\* lines 98-101: the interval fires while it is set
TypingTick(c) ==
    /\ Active(c)
    /\ typing[c].ticks < MaxTicks
    /\ typing' = Upd(typing, c, [typing[c] EXCEPT !.ticks = @ + 1])
    /\ UNCHANGED <<pc, trigger, selectParts, selectCalls, selected, error, caught,
                   unhandledRejection, history, attempt,
                   pending, answer, idx, sent, completionCalls, fetchLog,
                   outcome>>

----------------------------------------------------------------------------
(* The environment's inputs *)

UserIds == {i \in 1..(MaxChannel + 1) : AuthorOf(i) = "user"}
SelfIds == {i \in 1..MaxChannel : AuthorOf(i) = "self"}

\* events: the first message of the channel, one written by the bot itself,
\* one written by another bot, and the newest ones that users wrote; each
\* replies to nothing or to one of the two messages before it
TriggerIds == {1, 3, 5} \cup {i \in UserIds : i >= MaxChannel}
RefsOf(id) == {0} \cup ({id - 1, id - 2} \cap 1..MaxChannel)
Contents == {<<>>, Prefix, Prefix \o <<" ">>, Prefix \o <<" ", "h">>, <<"h">>}
Events == {[id |-> id, ref |-> ref, content |-> content, attachments |-> <<>>] :
             id \in TriggerIds, ref \in 0..MaxChannel, content \in Contents}
MainEvents == {e \in Events : e.ref \in RefsOf(e.id)}
PlainEvents == {e \in Events : /\ e.id = 1 \/ e.id >= MaxChannel
                               /\ e.ref = 0
                               /\ e.content \in {Prefix, Prefix \o <<" ", "h">>}}

\* attachments: f.contentType is null for NoType
NoType == <<>>
ContentTypes == <<<<"image/", "png">>, <<"text/", "plain">>,
                  <<"application/", "pdf">>, NoType>>
Attachment(k, shift) ==
    [name |-> k, url |-> k, contentType |-> ContentTypes[((k + shift) % 4) + 1]]
AttachmentLists ==
    {[k \in 1..n |-> Attachment(k, shift)] : n \in 0..MaxAttachments, shift \in 0..3}
\* the n newest messages that users wrote
NewestUsers(n) == {i \in UserIds : Cardinality({j \in UserIds : j > i}) < n}

PartsEvents ==
    {[id |-> id, ref |-> 0, content |-> content, attachments |-> atts] :
        id \in NewestUsers(1),
        content \in {Prefix, Prefix \o <<" ", "h">>, Prefix \o <<"\t", "\r", "h">>},
        atts \in AttachmentLists}

SelectOutcomes ==
    {[err |-> ErrorOf(t), model |-> NoModel] : t \in SelectErrorTexts}
    \cup {[err |-> NoError, model |-> m] : m \in {modelList[3], NoModel}}

\* the limit arguments of the get_messages items of one response
MainCalls == {<<1>>, <<SeedLimit + 1>>, <<1, SeedLimit + 1>>,
              <<SeedLimit + 1, SeedLimit + 1>>}
PlainCalls == {<<1>>}

ShortLens == {0, 2}
LongLens == {0, 1, ChunkLimit - 1, ChunkLimit, ChunkLimit + 1, 2 * ChunkLimit,
             MaxTextLen}

Responses(lens, calls) ==
    {[err |-> ErrorOf(t), calls |-> <<>>, text |-> <<>>] : t \in CompletionErrorTexts}
    \cup {[err |-> NoError, calls |-> <<>>, text |-> Text(n)] : n \in lens}
    \cup {[err |-> NoError, calls |-> cl, text |-> <<>>] : cl \in calls}

----------------------------------------------------------------------------
(* Specifications *)

Init ==
    /\ pc = [c \in Cycles |-> "idle"]
    /\ trigger = [c \in Cycles |-> NoMsg]
    /\ selectParts = [c \in Cycles |-> <<>>]
    /\ typing = [c \in Cycles |-> [set |-> 0, cleared |-> 0, ticks |-> 0]]
    /\ selectCalls = [c \in Cycles |-> 0]
    /\ selected = [c \in Cycles |-> NoModel]
    /\ error = [c \in Cycles |-> NoError]
    /\ caught = [c \in Cycles |-> NoError]
    /\ unhandledRejection = [c \in Cycles |-> FALSE]
    /\ history = [c \in Cycles |-> <<>>]
    /\ attempt = [c \in Cycles |-> 0]
    /\ pending = [c \in Cycles |-> {}]
    /\ answer = [c \in Cycles |-> <<>>]
    /\ idx = [c \in Cycles |-> 0]
    /\ sent = [c \in Cycles |-> <<>>]
    /\ completionCalls = [c \in Cycles |-> <<>>]
    /\ fetchLog = [c \in Cycles |-> <<>>]
    /\ outcome = [c \in Cycles |-> "none"]

Next ==
    \E c \in MainCycles :
        \/ \E e \in MainEvents : MessageCreate(c, e.id, e.ref, e.content, e.attachments)
        \/ \E ok \in BOOLEAN : FetchReferenceReturns(c, ok)
        \/ \E ok \in BOOLEAN : AttachmentFetchReturns(c, ok)
        \/ \E r \in SelectOutcomes : SelectReturns(c, r)
        \/ \E ok \in BOOLEAN : SeedFetchReturns(c, ok)
        \/ \E r \in Responses(ShortLens, MainCalls) : CompletionReturns(c, r)
        \/ \E p \in pending[c] : \E ok \in BOOLEAN : FetchReturns(c, p, ok)
        \/ \E ok \in BOOLEAN : ChunkDelivered(c, ok)
        \/ \E ok \in BOOLEAN : ReplyDelivered(c, ok)
        \/ TypingTick(c)

Spec == Init /\ [][Next]_vars

\* the same handler answering with texts around and beyond the chunk limit
NextReply ==
    \E c \in MainCycles :
        \/ \E e \in PlainEvents : MessageCreate(c, e.id, e.ref, e.content, e.attachments)
        \/ \E ok \in BOOLEAN : AttachmentFetchReturns(c, ok)
        \/ \E r \in SelectOutcomes : SelectReturns(c, r)
        \/ \E ok \in BOOLEAN : SeedFetchReturns(c, ok)
        \/ \E r \in Responses(LongLens, PlainCalls) : CompletionReturns(c, r)
        \/ \E p \in pending[c] : \E ok \in BOOLEAN : FetchReturns(c, p, ok)
        \/ \E ok \in BOOLEAN : ChunkDelivered(c, ok)
        \/ \E ok \in BOOLEAN : ReplyDelivered(c, ok)
        \/ TypingTick(c)

SpecReply == Init /\ [][NextReply]_vars

\* the same handler triggered by messages that carry attachments
NextParts ==
    \E c \in MainCycles :
        \/ \E e \in PartsEvents :
              MessageCreate(c, e.id, e.ref, e.content, e.attachments)
        \/ \E ok \in BOOLEAN : AttachmentFetchReturns(c, ok)
        \/ \E r \in SelectOutcomes : SelectReturns(c, r)
        \/ \E ok \in BOOLEAN : SeedFetchReturns(c, ok)
        \/ \E r \in Responses(ShortLens, PlainCalls) : CompletionReturns(c, r)
        \/ \E p \in pending[c] : \E ok \in BOOLEAN : FetchReturns(c, p, ok)
        \/ \E ok \in BOOLEAN : ChunkDelivered(c, ok)
        \/ \E ok \in BOOLEAN : ReplyDelivered(c, ok)
        \/ TypingTick(c)

SpecParts == Init /\ [][NextParts]_vars

\* two invocations of the handler, for the two newest messages of users,
\* resumed in any order
TwoEvents ==
    {[id |-> id, ref |-> 0, content |-> Prefix \o <<" ", "h">>,
      attachments |-> <<>>] : id \in NewestUsers(2)}
TwoSelectOutcomes == {r \in SelectOutcomes : r.err.message # <<"s", "2">>}
TwoResponses ==
    {r \in Responses(ShortLens, PlainCalls) :
        r.err.message # <<"c", "2">> /\ (r.err.failed \/ r.calls # <<>> \/ r.text # <<>>)}

NextTwo ==
    \E c \in Cycles :
        \/ \E e \in TwoEvents :
              MessageCreate(c, e.id, e.ref, e.content, e.attachments)
        \/ \E ok \in BOOLEAN : AttachmentFetchReturns(c, ok)
        \/ \E r \in TwoSelectOutcomes : SelectReturns(c, r)
        \/ \E ok \in BOOLEAN : SeedFetchReturns(c, ok)
        \/ \E r \in TwoResponses : CompletionReturns(c, r)
        \/ \E p \in pending[c] : \E ok \in BOOLEAN : FetchReturns(c, p, ok)
        \/ \E ok \in BOOLEAN : ChunkDelivered(c, ok)
        \/ \E ok \in BOOLEAN : ReplyDelivered(c, ok)
        \/ TypingTick(c)

SpecTwo == Init /\ [][NextTwo]_vars

\* the same handler when the service's get_messages items carry any limit,
\* inside and outside the range the tool's schema declares
LimitCalls == {<<n>> : n \in {0, LimitMinimum, LimitMaximum, MaxLimit}}

NextLimits ==
    \E c \in MainCycles :
        \/ \E e \in PlainEvents :
              MessageCreate(c, e.id, e.ref, e.content, e.attachments)
        \/ \E ok \in BOOLEAN : AttachmentFetchReturns(c, ok)
        \/ \E r \in SelectOutcomes : SelectReturns(c, r)
        \/ \E ok \in BOOLEAN : SeedFetchReturns(c, ok)
        \/ \E r \in Responses(ShortLens, LimitCalls) : CompletionReturns(c, r)
        \/ \E p \in pending[c] : \E ok \in BOOLEAN : FetchReturns(c, p, ok)
        \/ \E ok \in BOOLEAN : ChunkDelivered(c, ok)
        \/ \E ok \in BOOLEAN : ReplyDelivered(c, ok)
        \/ TypingTick(c)

SpecLimits == Init /\ [][NextLimits]_vars

----------------------------------------------------------------------------
(* Properties *)

Started(c) == pc[c] # "idle"

\* the cycle passed the intake filter with a non-empty prompt
Engaged(c) ==
    /\ Started(c)
    /\ pc[c] # "referencing"
    /\ outcome[c] # "unhandled"
    /\ Accepts(trigger[c].id, trigger[c].ref, trigger[c].content)
    /\ Len(PromptOf(trigger[c].content)) > 0

ToolFetches(c) == {k \in 1..Len(fetchLog[c]) : fetchLog[c][k].kind = "tool"}

\* the messages of the try block: all but the reply of the catch
TrySent(c) ==
    IF caught[c].failed THEN SubSeq(sent[c], 1, Len(sent[c]) - 1) ELSE sent[c]

RECURSIVE ConcatSent(_)
ConcatSent(msgs) ==
    IF Len(msgs) = 0 THEN <<>>
    ELSE ConcatSent(SubSeq(msgs, 1, Len(msgs) - 1)) \o msgs[Len(msgs)].text

\* C1: a cycle issues at most 3 completion calls, on attempts 0, 1, 2 in
\* this order, and the call carries the get_messages tool exactly on
\* attempts 0 and 1.
C1_BoundedAttempts ==
    \A c \in Cycles :
        /\ Len(completionCalls[c]) <= 3
        /\ \A k \in 1..Len(completionCalls[c]) :
              /\ completionCalls[c][k].attempt = k - 1
              /\ completionCalls[c][k].tools = (k - 1 \in {0, 1})

C1_Witness ==
    /\ Len(completionCalls[1]) = 3
    /\ completionCalls[1][3].tools = FALSE
    /\ completionCalls[1][2].tools = TRUE

\* C2: the working history never holds two entries with the same message id.
C2_NoDuplicateIds ==
    \A c \in Cycles :
        \A i, j \in 1..Len(history[c]) :
            i # j => history[c][i].id # history[c][j].id

\* C3: the working history is sorted in ascending order of creation
\* timestamp whenever the handler is suspended: at the start of every
\* attempt and after every merge of a fetched batch.
C3_HistorySorted ==
    \A c \in Cycles :
        \A i \in 1..(Len(history[c]) - 1) :
            createdTimestamp(history[c][i]) <= createdTimestamp(history[c][i + 1])

C3_Witness ==
    /\ pc[1] = "completing"
    /\ attempt[1] = 2
    /\ Len(history[1]) > SeedLimit + 1
    /\ \E i \in 1..(Len(history[1]) - 1) :
          createdTimestamp(history[1][i]) < createdTimestamp(history[1][i + 1])

\* C4: every expansion fetch is anchored before the earliest message of the
\* working history at the time the fetch is issued.
C4_FetchBeforeEarliest ==
    \A c \in Cycles :
        \A k \in ToolFetches(c) : fetchLog[c][k].before = fetchLog[c][k].oldest

\* C5: a cycle that set the typing interval has cleared it exactly once when
\* it ends, whatever the exit path, never clears it twice, and the interval
\* does not fire once the cycle has ended.
C5_TypingStoppedOnce ==
    [][\A c \in Cycles :
          /\ (pc'[c] = "done" /\ typing'[c].set = 1) => typing'[c].cleared = 1
          /\ typing'[c].cleared <= 1
          /\ pc[c] = "done" => typing'[c].ticks = typing[c].ticks]_vars

C5_Witness ==
    /\ pc[1] = "done"
    /\ outcome[1] = "exception"
    /\ typing[1] = [set |-> 1, cleared |-> 1, ticks |-> 1]

\* C6: a cycle that passed the intake filter with a non-empty prompt has
\* sent at least one message when it ends.
C6_NeverSilent ==
    \A c \in Cycles :
        (Engaged(c) /\ pc[c] = "done") => Len(sent[c]) >= 1

\* C7 as claimed: once the completion call of attempt n has failed, the
\* cycle has issued n + 1 completion calls and no more, no fetch for attempt
\* n or later, and its only message is a reply carrying the error's message.
C7_CompletionErrorAborts ==
    \A c \in Cycles :
        outcome[c] = "completionError" =>
            /\ error[c].message \in CompletionErrorTexts
            /\ sent[c] = <<[via |-> "reply", text |-> error[c].message]>>
            /\ Len(completionCalls[c]) = attempt[c] + 1
            /\ pending[c] = {}
            /\ \A k \in ToolFetches(c) : fetchLog[c][k].attempt < attempt[c]
            /\ pc[c] \in {"replying", "catching", "done"}

\* C7 as amended: once the completion call of attempt n has failed, the
\* cycle has issued n + 1 completion calls and no more and no fetch for
\* attempt n or later; its first message is a reply carrying the error's
\* message, and it is the only message unless the gateway rejects it: then
\* the catch issues one more reply, and nothing else follows.
C7_CompletionErrorReplied ==
    \A c \in Cycles :
        outcome[c] = "completionError" =>
            /\ error[c].message \in CompletionErrorTexts
            /\ TrySent(c) = <<[via |-> "reply", text |-> error[c].message]>>
            /\ caught[c].failed <=> Len(sent[c]) = 2
            /\ caught[c].failed =>
                  /\ caught[c].message = GatewayErrorText
                  /\ sent[c][2].via = "reply"
            /\ Len(completionCalls[c]) = attempt[c] + 1
            /\ pending[c] = {}
            /\ \A k \in ToolFetches(c) : fetchLog[c][k].attempt < attempt[c]
            /\ pc[c] \in {"replying", "catching", "done"}

C7_Witness ==
    /\ pc[1] = "done"
    /\ outcome[1] = "completionError"
    /\ attempt[1] = 1
    /\ ToolFetches(1) # {}
    /\ caught[1].failed
    /\ Len(sent[1]) = 2

\* C8 as claimed: a cycle issues at most one selection call; when that call
\* fails (or the download awaited for its input does, before the call is
\* issued) the only message is a reply with exactly the error's text, and
\* neither a completion call nor a history fetch is issued.
C8_SelectErrorAborts ==
    \A c \in Cycles :
        /\ selectCalls[c] <= 1
        /\ outcome[c] = "selectError" =>
              /\ error[c].message \in
                    (IF selectCalls[c] = 1 THEN SelectErrorTexts
                                           ELSE {AttachmentErrorText})
              /\ sent[c] = <<[via |-> "reply", text |-> error[c].message]>>
              /\ completionCalls[c] = <<>>
              /\ fetchLog[c] = <<>>

\* C8 as amended: a cycle issues at most one selection call; when that call
\* fails (or the download awaited for its input does, before the call is
\* issued) neither a completion call nor a history fetch is issued and the
\* first message is a reply with exactly the error's text; it is the only
\* message unless the gateway rejects it: then the catch issues one more
\* reply, and nothing else follows.
C8_SelectErrorReplied ==
    \A c \in Cycles :
        /\ selectCalls[c] <= 1
        /\ outcome[c] = "selectError" =>
              /\ error[c].message \in
                    (IF selectCalls[c] = 1 THEN SelectErrorTexts
                                           ELSE {AttachmentErrorText})
              /\ TrySent(c) = <<[via |-> "reply", text |-> error[c].message]>>
              /\ caught[c].failed <=> Len(sent[c]) = 2
              /\ caught[c].failed =>
                    /\ caught[c].message = GatewayErrorText
                    /\ sent[c][2].via = "reply"
              /\ completionCalls[c] = <<>>
              /\ fetchLog[c] = <<>>
              /\ pc[c] \in {"replying", "catching", "done"}

C8_Witness ==
    /\ pc[1] = "done"
    /\ outcome[1] = "selectError"
    /\ selectCalls[1] = 1
    /\ caught[1].failed
    /\ Len(sent[1]) = 2
    /\ sent[1][1] = [via |-> "reply", text |-> <<"s", "2">>]

\* the selection call has returned without error and without a model value
SelectedNothing(c) ==
    /\ Engaged(c)
    /\ pc[c] \notin {"referencing", "selectBuilding", "selecting"}
    /\ outcome[c] \notin {"selectError", "unhandled"}
    /\ selected[c] = NoModel

\* C9: a selection result without a model value aborts the cycle as a
\* selection failure: no completion call is issued, and none ever names a
\* model that the selection did not return.
C9_MissingModelAborts ==
    \A c \in Cycles :
        /\ SelectedNothing(c) => completionCalls[c] = <<>>
        /\ \A k \in 1..Len(completionCalls[c]) :
              completionCalls[c][k].model = selected[c]

\* C10 as claimed: the chunks of a final answer have at most 2000 characters
\* each; in send order they concatenate to a prefix of the answer text while
\* the reply loop runs and to the whole text when the cycle has ended.
C10_ChunksRoundTrip ==
    \A c \in Cycles :
        outcome[c] = "answered" =>
            /\ \A k \in 1..Len(TrySent(c)) : Len(TrySent(c)[k].text) <= 2000
            /\ Len(ConcatSent(TrySent(c))) <= Len(answer[c])
            /\ ConcatSent(TrySent(c)) =
                  SubSeq(answer[c], 1, Len(ConcatSent(TrySent(c))))
            /\ pc[c] = "done" => ConcatSent(TrySent(c)) = answer[c]

\* C10 as amended: the chunks of a final answer have at most 2000 characters
\* each and in send order they always concatenate to a prefix of the answer
\* text; they concatenate to the whole text when the cycle has ended and
\* the gateway has rejected none of them.  After a rejected chunk no further
\* chunk is sent: the only message that follows is the reply of the catch.
C10_ChunksRoundTripUnlessRejected ==
    \A c \in Cycles :
        outcome[c] = "answered" =>
            /\ \A k \in 1..Len(TrySent(c)) : Len(TrySent(c)[k].text) <= 2000
            /\ Len(ConcatSent(TrySent(c))) <= Len(answer[c])
            /\ ConcatSent(TrySent(c)) =
                  SubSeq(answer[c], 1, Len(ConcatSent(TrySent(c))))
            /\ (pc[c] = "done" /\ ~caught[c].failed) =>
                  ConcatSent(sent[c]) = answer[c]
            /\ caught[c].failed =>
                  /\ caught[c].message = GatewayErrorText
                  /\ Len(sent[c]) = idx[c] \div 2000 + 2
                  /\ sent[c][Len(sent[c])].via = "reply"
                  /\ pc[c] \in {"catching", "done"}

C10_Witness ==
    /\ pc[1] = "done"
    /\ outcome[1] = "answered"
    /\ ~caught[1].failed
    /\ Len(answer[1]) = 4500
    /\ Len(sent[1]) = 3
    /\ Len(sent[1][3].text) = 500

\* C11: the k-th chunk of a final answer is the k-th block of 2000
\* characters of the text; the first goes out with reply, every later one
\* with send, and only one chunk is in flight at a time: chunk k + 1 is
\* handed over when chunk k has been delivered.
C11_ChunksInOrder ==
    \A c \in Cycles :
        outcome[c] = "answered" =>
            /\ \A k \in 1..Len(TrySent(c)) :
                  /\ sent[c][k].via = (IF k = 1 THEN "reply" ELSE "send")
                  /\ sent[c][k].text =
                        SubSeq(answer[c], 2000 * (k - 1) + 1,
                               Min(2000 * k, Len(answer[c])))
            /\ Len(sent[c]) - Len(TrySent(c)) <= 1
            /\ pc[c] = "answering" => 2000 * (Len(sent[c]) - 1) = idx[c]

C11_Witness ==
    /\ pc[1] = "answering"
    /\ Len(answer[1]) = 4500
    /\ idx[1] = 4000
    /\ Len(sent[1]) = 3
    /\ sent[1][1].via = "reply"
    /\ sent[1][3].via = "send"

\* messages whose reply or send call has resolved: all handed over but the
\* one still awaited and those the gateway rejected
Delivered(c) ==
    Len(sent[c])
    - (IF pc[c] \in {"answering", "replying", "catching"} THEN 1 ELSE 0)
    - (IF caught[c].failed /\ caught[c].message = GatewayErrorText THEN 1 ELSE 0)
    - (IF caught[c].failed /\ unhandledRejection[c] THEN 1 ELSE 0)

\* C12: the typing interval never fires once a message of the cycle (an
\* answer chunk or an error reply) has been delivered.
C12_NoTypingAfterReply ==
    [][\A c \in Cycles :
          typing'[c].ticks > typing[c].ticks => Delivered(c) = 0]_vars

\* C13: a message whose content is empty after the leading mention prefix
\* is stripped and leading whitespace is trimmed causes no selection call,
\* no completion call and no reply.
C13_BlankPromptIgnored ==
    \A c \in Cycles :
        (Started(c) /\ TrimStart(PromptOf(trigger[c].content)) = <<>>) =>
            /\ selectCalls[c] = 0
            /\ completionCalls[c] = <<>>
            /\ sent[c] = <<>>

\* the cycle has issued a selection call, a completion call, a history fetch
\* or a message
Acted(c) ==
    \/ selectCalls[c] > 0
    \/ completionCalls[c] # <<>>
    \/ fetchLog[c] # <<>>
    \/ sent[c] # <<>>

\* C14: only a message that no bot wrote and that either begins with the
\* mention prefix or replies to a message of the bot itself causes a
\* selection call, a completion call, a history fetch or a reply.
C14_OnlyAddressedMessages ==
    \A c \in Cycles :
        Acted(c) =>
            /\ AuthorOf(trigger[c].id) \notin {"self", "otherbot"}
            /\ \/ /\ Len(trigger[c].content) >= 3
                  /\ SubSeq(trigger[c].content, 1, 3) = <<"<", "@", ">">>
               \/ /\ trigger[c].ref # 0
                  /\ AuthorOf(trigger[c].ref) = "self"

C14_Witness ==
    /\ pc[1] = "done"
    /\ outcome[1] = "answered"
    /\ sent[1] # <<>>
    /\ trigger[1].content = <<"h">>
    /\ trigger[1].ref # 0

\* C15: when an exception reaches the catch of the cycle, the only message
\* sent is a reply with the fixed generic text, not the exception's message.
C15_GenericApologyOnly ==
    \A c \in Cycles :
        caught[c].failed =>
            /\ sent[c][Len(sent[c])] = [via |-> "reply", text |-> GenericApology]
            /\ sent[c][Len(sent[c])].text # caught[c].message
            /\ outcome[c] = "exception" => Len(sent[c]) = 1

\* C16: the content built for a message is one text part for the message
\* itself, then one part for each of its first 10 attachments, in their
\* order: 1 + min(n, 10) parts for n attachments.
C16_PartsShape ==
    \A c \in Cycles :
        selectCalls[c] > 0 =>
            LET atts == trigger[c].attachments
                n == IF Len(atts) < 10 THEN Len(atts) ELSE 10
            IN /\ Len(selectParts[c]) = 1 + n
               /\ selectParts[c][1].type = "input_text"
               /\ selectParts[c][1].text.time = createdTimestamp(trigger[c])
               /\ \A k \in 1..n :
                     \/ /\ selectParts[c][k + 1].type = "input_text"
                        /\ selectParts[c][k + 1].text.filename = atts[k].name
                     \/ /\ selectParts[c][k + 1].type \in
                              {"input_image", "input_file"}
                        /\ selectParts[c][k + 1].url = atts[k].url

C16_Witness ==
    /\ selectCalls[1] = 1
    /\ Len(trigger[1].attachments) = 12
    /\ Len(selectParts[1]) = 11
    /\ selectParts[1][2].type = "input_image"
    /\ selectParts[1][3].type = "input_text"
    /\ selectParts[1][4].type = "input_file"

\* attempts whose completion response carried get_messages items
ToolAttempts(c) == {fetchLog[c][j].attempt : j \in ToolFetches(c)}

\* C17: a cycle sends a final answer exactly when a response without
\* get_messages item arrives, and the answer is that response's text; while
\* the fetches of a tool response are awaited nothing has been sent, and a
\* cycle that ends after k tool responses has issued min(k + 1, 3)
\* completion calls.
C17_AnswerIffTerminalResponse ==
    \A c \in Cycles :
        LET k == Cardinality(ToolAttempts(c))
        IN /\ pc[c] = "expanding" => sent[c] = <<>>
           /\ (pc[c] = "done" /\ outcome[c] = "answered" /\ ~caught[c].failed) =>
                 /\ sent[c] # <<>>
                 /\ ConcatSent(sent[c]) = answer[c]
           /\ outcome[c] # "answered" =>
                 /\ Len(TrySent(c)) <= 1
                 /\ sent[c] # <<>> => (error[c].failed \/ caught[c].failed)
           /\ (pc[c] = "done" /\ completionCalls[c] # <<>>) =>
                 Len(completionCalls[c]) = (IF k + 1 < 3 THEN k + 1 ELSE 3)

\* C18: a cycle whose three completion responses all carried get_messages
\* items ends as a failure: it has sent an error message when it ends.
C18_ExhaustionReported ==
    \A c \in Cycles :
        (pc[c] = "done" /\ ToolAttempts(c) = {0, 1, 2}) =>
            /\ Len(sent[c]) = 1
            /\ error[c].failed \/ caught[c].failed

\* the ids of the input turns of the n-th completion call
InputIds(c, n) ==
    {completionCalls[c][n].input[q].id : q \in 1..Len(completionCalls[c][n].input)}

\* the ids of the batch that the k-th logged fetch returns
BatchIds(c, k) ==
    LET batch == Fetch(fetchLog[c][k].limit, fetchLog[c][k].before)
    IN {batch[i].id : i \in 1..Len(batch)}

\* C19: a response with k get_messages items issues exactly k fetches, and
\* the input of every later attempt holds every message of every batch
\* fetched for the attempts before it, whatever the order in which the
\* concurrent fetches were merged into the history.
C19_NoBatchLost ==
    \A c \in Cycles :
        /\ \A j \in ToolFetches(c) :
              Cardinality({i \in ToolFetches(c) :
                             fetchLog[c][i].attempt = fetchLog[c][j].attempt})
                  = fetchLog[c][j].of
        /\ \A n \in 1..Len(completionCalls[c]) :
              \A j \in ToolFetches(c) :
                  fetchLog[c][j].attempt < completionCalls[c][n].attempt =>
                      BatchIds(c, j) \subseteq InputIds(c, n)

C19_Witness ==
    /\ pc[1] = "completing"
    /\ attempt[1] = 1
    /\ Len(fetchLog[1]) = 3
    /\ fetchLog[1][2].of = 2
    /\ fetchLog[1][2].limit # fetchLog[1][3].limit
    /\ BatchIds(1, 2) # BatchIds(1, 3)
    /\ ~(BatchIds(1, 3) \subseteq InputIds(1, 1))
    /\ BatchIds(1, 2) \cup BatchIds(1, 3) \subseteq InputIds(1, 2)

\* everything one invocation of the handler holds and has issued
Local(c) ==
    <<pc[c], trigger[c], selectParts[c], typing[c], selectCalls[c],
      selected[c], error[c], caught[c], unhandledRejection[c], history[c],
      attempt[c], pending[c], answer[c], idx[c], sent[c], completionCalls[c],
      fetchLog[c], outcome[c]>>

\* what a cycle has issued is what its own trigger and its own history give
OwnWork(c) ==
    /\ selectCalls[c] <= 1
    /\ fetchLog[c] # <<>> => fetchLog[c][1].before = SeedAnchor(trigger[c])
    /\ \A k \in 1..Len(completionCalls[c]) :
          /\ completionCalls[c][k].attempt = k - 1
          /\ completionCalls[c][k].tools = (k <= 2)
    /\ completionCalls[c] # <<>> =>
          /\ InputIds(c, 1) =
                {trigger[c].id} \cup
                {i \in 1..(SeedAnchor(trigger[c]) - 1) : i >= SeedAnchor(trigger[c]) - 5}
          /\ completionCalls[c][Len(completionCalls[c])].input =
                IF pc[c] \in {"completing", "answering"} \/ outcome[c] = "answered"
                   \/ outcome[c] = "completionError"
                THEN BuildInput(history[c])
                ELSE completionCalls[c][Len(completionCalls[c])].input
    /\ \A i \in 1..Len(history[c]) : history[c][i].id <= trigger[c].id
    /\ \A k \in 1..Len(sent[c]) :
          sent[c][k].text \in {answer[c], error[c].message, caught[c].message}

\* C20: with two cycles interleaved in any order, a step changes the state
\* of one cycle only (its history, attempt counter, typing interval, calls
\* and replies), stopping one cycle's typing interval leaves the other's
\* running, and what each cycle issues follows from its own trigger and
\* its own history.
C20_CyclesIndependent ==
    [][\A c \in Cycles :
          /\ \A d \in Cycles \ {c} :
                Local(c)' # Local(c) =>
                    /\ Local(d)' = Local(d)
                    /\ Active(d) => Active(d)'
          /\ OwnWork(c)']_vars

C20_Witness ==
    /\ pc[1] = "done"
    /\ outcome[1] = "answered"
    /\ typing[1].cleared = 1
    /\ pc[2] = "completing"
    /\ attempt[2] = 1
    /\ Active(2)
    /\ typing[2].ticks = 1
    /\ trigger[1].id > trigger[2].id
    /\ history[1] # history[2]

\* C21: the input of the completion call of every attempt is built from
\* the history as it stands at that attempt, with every batch merged on
\* earlier attempts: one turn per entry, in the history's order, with role
\* assistant exactly for the entries the bot itself wrote.
C21_InputRebuilt ==
    \A c \in Cycles :
        pc[c] = "completing" =>
            LET input == completionCalls[c][Len(completionCalls[c])].input
            IN /\ completionCalls[c][Len(completionCalls[c])].attempt = attempt[c]
               /\ Len(input) = Len(history[c])
               /\ \A k \in 1..Len(input) :
                     /\ input[k].id = history[c][k].id
                     /\ input[k].role = "assistant" <=> history[c][k].id % 3 = 0
                     /\ input[k].role = "user" <=> history[c][k].id % 3 # 0
               /\ \A j \in ToolFetches(c) :
                     BatchIds(c, j) \subseteq {input[k].id : k \in 1..Len(input)}

C21_Witness ==
    /\ pc[1] = "completing"
    /\ attempt[1] = 2
    /\ Len(completionCalls[1]) = 3
    /\ Len(completionCalls[1][3].input) > Len(completionCalls[1][1].input)
    /\ \E k \in 1..Len(history[1]) :
          /\ history[1][k].author = "otherbot"
          /\ completionCalls[1][3].input[k].role = "user"
    /\ \E k \in 1..Len(history[1]) :
          completionCalls[1][3].input[k].role = "assistant"

\* C22: every fetch issued for a get_messages item has a limit between 1
\* and 20, whatever limit the item's arguments carry.
C22_LimitInRange ==
    \A c \in Cycles :
        \A k \in ToolFetches(c) :
            /\ fetchLog[c][k].limit >= 1
            /\ fetchLog[c][k].limit <= 20

\* C23: whenever a cycle has a history, the triggering message is in it
\* exactly once and is its last entry, and every expansion fetch has been
\* issued with before = the triggering message's id.
C23_TriggerLast ==
    \A c \in Cycles :
        history[c] # <<>> =>
            /\ Cardinality({k \in 1..Len(history[c]) :
                               history[c][k].id = trigger[c].id}) = 1
            /\ history[c][Len(history[c])].id = trigger[c].id
            /\ \A k \in ToolFetches(c) : fetchLog[c][k].before = trigger[c].id

====
